---- MODULE Spec2Model ----
(***************************************************************************)
(* Model of src/did.py: create_ethereum_did, verify_did and main.          *)
(*                                                                         *)
(* Text is a sequence of tokens (a token is a literal piece of text or one *)
(* character), so f-strings are concatenations and str.lower() is a map.   *)
(* A Python value is tagged with its runtime type, the way json.dumps      *)
(* dispatches on it; a dict keeps its keys in insertion order.             *)
(* Keccak-256 is an ideal hash: injective on the messages of the model.    *)
(* A recoverable ECDSA signature is the pair (signer key, signed digest):  *)
(* recovery over the signed digest gives the signer's address, recovery    *)
(* over any other digest gives the address of another key.                 *)
(*                                                                         *)
(* Line 13 of did.py opens two parentheses and closes one; the model reads *)
(* the statement as the closed call Web3(Web3.HTTPProvider(...)), which    *)
(* builds a client object and touches no state the functions share.        *)
(***************************************************************************)
EXTENDS Integers, Sequences, FiniteSets, TLC

\* ---------------------------------------------------------------- bounds
\* Hex digits of an address and of a private key (40 and 64 in the code).
AddrLen == 2
\* verify_did calls a holder of a bundle makes.
MaxCalls == 2
\* Changes made to a bundle between its creation and its presentation.
MaxEdits == 1

\* Values of the hex digits the generated keys are drawn from.
Nibbles == {1, 10}

\* Bytes of a recoverable signature: r (32), s (32), v (1).
SigBytes == 65

\* ------------------------------------------------------------------ text
HexLower == <<"0", "1", "2", "3", "4", "5", "6", "7", "8", "9",
              "a", "b", "c", "d", "e", "f">>
HexUpper == <<"0", "1", "2", "3", "4", "5", "6", "7", "8", "9",
              "A", "B", "C", "D", "E", "F">>

QUOTE == "\""
BACKSLASH == "\\"

\* str.lower() on one character.
LowerChar(c) ==
  IF \E n \in 11..16 : HexUpper[n] = c
    THEN HexLower[CHOOSE n \in 11..16 : HexUpper[n] = c]
    ELSE c

\* str.lower()
Lower(s) == [i \in 1..Len(s) |-> LowerChar(s[i])]

\* The value of a hex digit, either case; -1 for any other token.
NibbleOf(c) ==
  IF \E n \in 1..16 : HexLower[n] = c \/ HexUpper[n] = c
    THEN (CHOOSE n \in 1..16 : HexLower[n] = c \/ HexUpper[n] = c) - 1
    ELSE -1

\* bytes.hex() of HexBytes: "0x" and the lowercase digits.
ToHex(nibs) == <<"0x">> \o [i \in 1..Len(nibs) |-> HexLower[nibs[i] + 1]]

\* HexBytes(str): the digits after an optional "0x" prefix.
FromHex(s) ==
  LET body == IF Len(s) > 0 /\ s[1] = "0x" THEN Tail(s) ELSE s
  IN  [i \in 1..Len(body) |-> NibbleOf(body[i])]

RECURSIVE SumWeighted(_, _)
SumWeighted(nibs, i) ==
  IF i > Len(nibs) THEN 0 ELSE (2 * i + 1) * nibs[i] + SumWeighted(nibs, i + 1)

\* Hex digit i of keccak256 of the lowercase address text (EIP-55).
ChecksumNibble(nibs, i) == (SumWeighted(nibs, 1) + 5 * i) % 16

\* to_checksum_address: a letter is upper case when its hash digit is >= 8.
ToChecksumAddress(nibs) ==
  <<"0x">> \o [i \in 1..Len(nibs) |->
     IF nibs[i] >= 10 /\ ChecksumNibble(nibs, i) > 7
       THEN HexUpper[nibs[i] + 1] ELSE HexLower[nibs[i] + 1]]

\* ------------------------------------------------------------ key material
\* The private keys Account.create() can draw.
Keys == [1..AddrLen -> Nibbles]

\* Public key to address bytes: injective, one-way in the code.
PubKeyToAddress(key) == [i \in 1..Len(key) |-> key[Len(key) + 1 - i]]

\* acct.address
AccountAddress(key) == ToChecksumAddress(PubKeyToAddress(key))

\* ------------------------------------------------------------ Python values
PyStr(s) == [t |-> "str", s |-> s]
PyList(items) == [t |-> "list", items |-> items]
PyDict(entries) == [t |-> "dict", entries |-> entries]
Entry(k, v) == [k |-> k, v |-> v]

\* d[key]
DictHas(d, key) == \E i \in 1..Len(d.entries) : d.entries[i].k = key
DictGet(d, key) ==
  d.entries[CHOOSE i \in 1..Len(d.entries) : d.entries[i].k = key].v

\* d[key] = v on an existing key: the key keeps its position.
DictSet(d, key, v) ==
  PyDict([i \in 1..Len(d.entries) |->
            IF d.entries[i].k = key THEN Entry(key, v) ELSE d.entries[i]])

\* ------------------------------------------------------------- json.dumps
\* Mutant: strings are written between quotes without escaping.
EscapeChar_None(c) == <<c>>

\* The JSON encoder's string escaping.
EscapeChar(c) ==
  IF c = QUOTE THEN <<BACKSLASH, QUOTE>>
  ELSE IF c = BACKSLASH THEN <<BACKSLASH, BACKSLASH>>
  ELSE <<c>>

RECURSIVE EscapeStr(_)
EscapeStr(s) ==
  IF s = <<>> THEN <<>> ELSE EscapeChar(Head(s)) \o EscapeStr(Tail(s))

RECURSIVE JsonDumps(_)
RECURSIVE JsonItems(_)
RECURSIVE JsonEntries(_)

\* The items of a list, separated by ", ".
JsonItems(items) ==
  IF items = <<>> THEN <<>>
  ELSE JsonDumps(Head(items))
       \o (IF Len(items) > 1 THEN <<", ">> ELSE <<>>)
       \o JsonItems(Tail(items))

\* The entries of a dict, in insertion order: "key": value, separated by ", ".
JsonEntries(entries) ==
  IF entries = <<>> THEN <<>>
  ELSE <<QUOTE>> \o EscapeStr(<<Head(entries).k>>) \o <<QUOTE, ": ">>
       \o JsonDumps(Head(entries).v)
       \o (IF Len(entries) > 1 THEN <<", ">> ELSE <<>>)
       \o JsonEntries(Tail(entries))

\* json.dumps(value), default separators, no sort_keys.
JsonDumps(v) ==
  IF v.t = "str" THEN <<QUOTE>> \o EscapeStr(v.s) \o <<QUOTE>>
  ELSE IF v.t = "list" THEN <<"[">> \o JsonItems(v.items) \o <<"]">>
  ELSE <<"{">> \o JsonEntries(v.entries) \o <<"}">>

\* ------------------------------------------------------------ signatures
\* encode_defunct(text=message): the EIP-191 version "E" signable message.
EncodeDefunct(message) ==
  [version |-> "E",
   header  |-> <<"thereum Signed Message:\n", Len(message)>>,
   body    |-> message]

\* The digest that is signed: keccak256(0x19 + version + header + body).
MessageDigest(signable) ==
  <<"\\x19", signable.version>> \o signable.header \o signable.body

\* Mutant: the message body is signed without the EIP-191 prefix.
SignMessage_RawDigest(signable, private_key) ==
  [signer |-> FromHex(private_key),
   digest |-> signable.body,
   nbytes |-> SigBytes]

\* w3.eth.account.sign_message(message_hash, private_key=...).signature.hex()
SignMessage(signable, private_key) ==
  [signer |-> FromHex(private_key),
   digest |-> MessageDigest(signable),
   nbytes |-> SigBytes]

\* The key a signature over another digest recovers to: never the signer.
UnrelatedKey(key) ==
  [i \in 1..Len(key) |->
     IF i = 1 THEN CHOOSE n \in Nibbles :
                     /\ n # key[1]
                     /\ \A m \in Nibbles \ {key[1]} :
                          (m - key[1]) % 16 >= (n - key[1]) % 16
     ELSE key[i]]

\* Account.recover_message(message_hash, signature=...): the recovered
\* address, or an exception for a signature that is not 65 bytes long.
RecoverMessage(signable, signature) ==
  IF signature.nbytes # SigBytes
    THEN [raised |-> TRUE, address |-> <<>>]
  ELSE IF signature.digest = MessageDigest(signable)
    THEN [raised |-> FALSE, address |-> AccountAddress(signature.signer)]
  ELSE [raised |-> FALSE,
        address |-> AccountAddress(UnrelatedKey(signature.signer))]

\* ------------------------------------------------- create_ethereum_did
URI_DID_V1 == "https://www.w3.org/ns/did/v1"
URI_SECP256K1 == "https://w3id.org/security/suites/secp256k1recovery-2020/v2"

\* did = f"did:ethr:optimism:{address}"
Did(address) == <<"did:ethr:optimism:">> \o address

\* Mutant: the account id names chain 1 and the lower-case address.
VerificationMethod_Mainnet(did, address) ==
  PyDict(<<Entry("id", PyStr(did \o <<"#controller">>)),
           Entry("type", PyStr(<<"EcdsaSecp256k1RecoveryMethod2020">>)),
           Entry("controller", PyStr(did)),
           Entry("blockchainAccountId", PyStr(<<"eip155:1:">> \o Lower(address)))>>)

VerificationMethod(did, address) ==
  PyDict(<<Entry("id", PyStr(did \o <<"#controller">>)),
           Entry("type", PyStr(<<"EcdsaSecp256k1RecoveryMethod2020">>)),
           Entry("controller", PyStr(did)),
           Entry("blockchainAccountId", PyStr(<<"eip155:10:">> \o address))>>)

\* Mutant: authentication lists the DID, not the verification method's id.
DidDocument_DanglingAuth(did, verification_method) ==
  PyDict(<<Entry("@context", PyList(<<PyStr(<<URI_DID_V1>>),
                                      PyStr(<<URI_SECP256K1>>)>>)),
           Entry("id", PyStr(did)),
           Entry("verificationMethod", PyList(<<verification_method>>)),
           Entry("authentication", PyList(<<PyStr(did)>>)),
           Entry("assertionMethod",
                 PyList(<<DictGet(verification_method, "id")>>))>>)

DidDocument(did, verification_method) ==
  PyDict(<<Entry("@context", PyList(<<PyStr(<<URI_DID_V1>>),
                                      PyStr(<<URI_SECP256K1>>)>>)),
           Entry("id", PyStr(did)),
           Entry("verificationMethod", PyList(<<verification_method>>)),
           Entry("authentication",
                 PyList(<<DictGet(verification_method, "id")>>)),
           Entry("assertionMethod",
                 PyList(<<DictGet(verification_method, "id")>>))>>)

\* The bundle create_ethereum_did returns when Account.create() drew `key`.
CreateEthereumDid(key) ==
  LET private_key == ToHex(key)
      address == AccountAddress(key)
      did == Did(address)
      did_document == DidDocument(did, VerificationMethod(did, address))
      message == JsonDumps(did_document)
      message_hash == EncodeDefunct(message)
  IN  [did          |-> did,
       did_document |-> did_document,
       private_key  |-> private_key,
       address      |-> address,
       signature    |-> SignMessage(message_hash, private_key)]

\* ------------------------------------------------------------ verify_did
\* What verify_did(did_info) returns: "True", "False", or "raise" when
\* Account.recover_message raises (verify_did has no handler).
VerifyDid(did_info) ==
  LET message == JsonDumps(did_info.did_document)
      message_hash == EncodeDefunct(message)
      recovered == RecoverMessage(message_hash, did_info.signature)
  IN  IF recovered.raised THEN "raise"
      ELSE IF Lower(recovered.address) = Lower(did_info.address)
        THEN "True" ELSE "False"

\* Mutant: verify_did normalises the address of the dict it was given.
BundleAfterVerify_Normalises(did_info) ==
  [did_info EXCEPT !.address = Lower(did_info.address)]

\* The caller's dict after verify_did(did_info): verify_did assigns to no
\* key of it.
BundleAfterVerify(did_info) == did_info

\* ------------------------------------------------------------------ state
VARIABLES
  pc,         \* main's position
  did_info,   \* main's local did_info
  is_valid,   \* main's local is_valid
  main_ret,   \* what main returned
  stdout,     \* the lines main printed
  held,       \* a caller holds the bundle main returned
  presented,  \* the bundle that caller presents to verify_did
  outcome,    \* the result of that caller's last verify_did call
  calls,      \* verify_did calls made on presented
  edits       \* changes made to presented

vars == <<pc, did_info, is_valid, main_ret, stdout,
          held, presented, outcome, calls, edits>>

NoSignature == [signer |-> <<>>, digest |-> <<>>, nbytes |-> 0]
NoBundle == [did |-> <<>>, did_document |-> PyDict(<<>>), private_key |-> <<>>,
             address |-> <<>>, signature |-> NoSignature]

Init ==
  /\ pc = "start"
  /\ did_info = NoBundle
  /\ is_valid = "unset"
  /\ main_ret = [kind |-> "pending", value |-> NoBundle]
  /\ stdout = <<>>
  /\ held = FALSE
  /\ presented = NoBundle
  /\ outcome = "none"
  /\ calls = 0
  /\ edits = 0

caller == <<held, presented, outcome, calls, edits>>

\* ------------------------------------------------------------------ main
\* did_info = create_ethereum_did() and the four prints that follow; the
\* entropy source may fail, and Account.create() then raises.  The printed
\* document is its JSON text; the line breaks of indent=2 are not kept.
MainCreate ==
  /\ pc = "start"
  /\ \/ \E key \in Keys :
          LET b == CreateEthereumDid(key) IN
          /\ did_info' = b
          /\ stdout' = stdout \o <<<<"Created DID: ">> \o b.did,
                                   <<"Ethereum Address: ">> \o b.address,
                                   <<"\nDID Document:">>,
                                   JsonDumps(b.did_document)>>
          /\ pc' = "created"
     \/ /\ pc' = "except"
        /\ UNCHANGED <<did_info, stdout>>
  /\ UNCHANGED <<is_valid, main_ret, caller>>

\* is_valid = verify_did(did_info) and the print of the result.
MainVerify ==
  /\ pc = "created"
  /\ LET r == VerifyDid(did_info) IN
       IF r = "raise"
         THEN /\ pc' = "except"
              /\ UNCHANGED <<is_valid, stdout>>
         ELSE /\ pc' = "verified"
              /\ is_valid' = r
              /\ stdout' = Append(stdout,
                   <<"\nDID Verification: ",
                     IF r = "True" THEN "Success" ELSE "Failed">>)
  /\ did_info' = BundleAfterVerify(did_info)
  /\ UNCHANGED <<main_ret, caller>>

\* Mutant: main falls off the end of the try block without a return value.
MainReturn_NoValue ==
  /\ pc = "verified"
  /\ main_ret' = [kind |-> "None", value |-> NoBundle]
  /\ pc' = "done"
  /\ UNCHANGED <<did_info, is_valid, stdout, caller>>

\* return did_info
MainReturn ==
  /\ pc = "verified"
  /\ main_ret' = [kind |-> "bundle", value |-> did_info]
  /\ pc' = "done"
  /\ UNCHANGED <<did_info, is_valid, stdout, caller>>

\* except Exception as e: print the error, return None
MainExcept ==
  /\ pc = "except"
  /\ stdout' = Append(stdout, <<"Error creating DID: ">>)
  /\ main_ret' = [kind |-> "None", value |-> NoBundle]
  /\ pc' = "done"
  /\ UNCHANGED <<did_info, is_valid, caller>>

main == <<pc, did_info, is_valid, main_ret, stdout>>

\* ------------------------------------------- callers of verify_did
\* verify_did is a public function: whoever holds a bundle may present it,
\* or a bundle made from it, any number of times.

\* The caller receives the bundle main returned.
Receive ==
  /\ pc = "done"
  /\ main_ret.kind = "bundle"
  /\ ~held
  /\ held' = TRUE
  /\ presented' = main_ret.value
  /\ UNCHANGED <<main, outcome, calls, edits>>

\* The values a caller may put in place of a top-level field of the document.
DocumentValues(doc, field) ==
  IF field = "@context" THEN
    { PyList(Append(DictGet(doc, field).items, PyStr(<<"https://example.org/v1">>))),
      PyList(<<PyStr(<<URI_DID_V1, QUOTE, ", ", QUOTE, URI_SECP256K1>>)>>) }
  ELSE IF field = "id" THEN
    { PyStr(Did(AccountAddress(k))) : k \in Keys } \cup
    { PyStr(Lower(DictGet(doc, field).s)) }
  ELSE IF field = "verificationMethod" THEN
    { PyList(<<>>) }
  ELSE
    { PyList(<<>>), PyList(<<DictGet(doc, "id")>>) }

\* The values a caller may put in place of a field of the verification method.
MethodValues(vm, field) ==
  IF field = "type" THEN { PyStr(<<"Ed25519VerificationKey2020">>) }
  ELSE IF field = "blockchainAccountId" THEN
    { PyStr(<<"eip155:1:">> \o SubSeq(DictGet(vm, field).s, 2, Len(DictGet(vm, field).s))),
      PyStr(Lower(DictGet(vm, field).s)) }
  ELSE IF field = "id" THEN
    { PyStr(DictGet(vm, "controller").s \o <<"#key-1">>) }
  ELSE { PyStr(Lower(DictGet(vm, field).s)) }

Edit(bundle) ==
  /\ held
  /\ edits < MaxEdits
  /\ edits' = edits + 1
  /\ presented' = bundle
  /\ outcome' = "none"
  /\ calls' = 0
  /\ UNCHANGED <<main, held>>

\* One top-level field of did_document is changed after signing.
TamperDocument ==
  \E field \in {"@context", "id", "verificationMethod",
                "authentication", "assertionMethod"} :
    /\ DictHas(presented.did_document, field)
    /\ \E v \in DocumentValues(presented.did_document, field) :
         /\ v # DictGet(presented.did_document, field)
         /\ Edit([presented EXCEPT
                    !.did_document = DictSet(presented.did_document, field, v)])

\* One field of the document's verification method is changed after signing.
TamperMethod ==
  /\ DictHas(presented.did_document, "verificationMethod")
  /\ Len(DictGet(presented.did_document, "verificationMethod").items) = 1
  /\ LET vm == DictGet(presented.did_document, "verificationMethod").items[1] IN
     \E field \in {"id", "type", "controller", "blockchainAccountId"} :
     \E v \in MethodValues(vm, field) :
         /\ v # DictGet(vm, field)
         /\ Edit([presented EXCEPT
                    !.did_document =
                       DictSet(presented.did_document, "verificationMethod",
                               PyList(<<DictSet(vm, field, v)>>))])

\* d[k] = d.pop(k): the key moves to the end, the value stays.
MoveToEnd(d, i) ==
  PyDict([j \in 1..Len(d.entries) |->
            IF j < i THEN d.entries[j]
            ELSE IF j < Len(d.entries) THEN d.entries[j + 1]
            ELSE d.entries[i]])

\* The document is rebuilt with the same field values and its keys inserted
\* in another order.
RebuildDocument ==
  /\ Len(presented.did_document.entries) > 1
  /\ \E i \in 1..(Len(presented.did_document.entries) - 1) :
       Edit([presented EXCEPT
               !.did_document = MoveToEnd(presented.did_document, i)])

\* The holder of another key signs the presented document, as lines 37-39 do,
\* and names that key's address in the bundle.
SignWithOtherKey ==
  \E key \in Keys :
    /\ ToHex(key) # presented.private_key
    /\ Edit([presented EXCEPT
               !.private_key = ToHex(key),
               !.address = AccountAddress(key),
               !.signature =
                  SignMessage(EncodeDefunct(JsonDumps(presented.did_document)),
                              ToHex(key))])

\* The signature's hex text loses its last byte.
TruncateSignature ==
  /\ presented.signature.nbytes = SigBytes
  /\ Edit([presented EXCEPT !.signature.nbytes = SigBytes - 1])

\* The address field is written in lower case.
LowerAddress ==
  /\ Lower(presented.address) # presented.address
  /\ Edit([presented EXCEPT !.address = Lower(presented.address)])

\* verify_did(presented)
CallVerifyDid ==
  /\ held
  /\ calls < MaxCalls
  /\ calls' = calls + 1
  /\ outcome' = VerifyDid(presented)
  /\ presented' = BundleAfterVerify(presented)
  /\ UNCHANGED <<main, held, edits>>

Next ==
  \/ MainCreate
  \/ MainVerify
  \/ MainReturn
  \/ MainExcept
  \/ Receive
  \/ TamperDocument
  \/ TamperMethod
  \/ RebuildDocument
  \/ SignWithOtherKey
  \/ TruncateSignature
  \/ LowerAddress
  \/ CallVerifyDid

Spec == Init /\ [][Next]_vars

\* ---------------------------------------------------------------- claims
\* Python's ==: two dicts are equal when they hold the same keys with equal
\* values, whatever the insertion order.
RECURSIVE PyEq(_, _)
PyEq(a, b) ==
  IF a.t # b.t THEN FALSE
  ELSE IF a.t = "str" THEN a.s = b.s
  ELSE IF a.t = "list" THEN
    /\ Len(a.items) = Len(b.items)
    /\ \A i \in 1..Len(a.items) : PyEq(a.items[i], b.items[i])
  ELSE
    /\ {a.entries[i].k : i \in 1..Len(a.entries)}
         = {b.entries[i].k : i \in 1..Len(b.entries)}
    /\ \A i \in 1..Len(a.entries) :
         PyEq(a.entries[i].v, DictGet(b, a.entries[i].k))

HasBundle == pc \in {"created", "verified"} \/ main_ret.kind = "bundle"
Issued == main_ret.value
Called == held /\ outcome # "none"
SameProof ==
  presented.signature = Issued.signature /\ presented.address = Issued.address
HasUpper(s) == Lower(s) # s

\* C1: the signature create_ethereum_did returns recovers, over the
\* serialization of the document it returns, to the bundle's address;
\* verify_did on the unmodified bundle returns True, in main and for any
\* later caller, and never raises.
C1_RoundTrip ==
  /\ HasBundle =>
       RecoverMessage(EncodeDefunct(JsonDumps(did_info.did_document)),
                      did_info.signature)
         = [raised |-> FALSE, address |-> did_info.address]
  /\ pc = "verified" => is_valid = "True"
  /\ pc = "except" => did_info = NoBundle
  /\ (Called /\ edits = 0) => outcome = "True"

C1_Witness ==
  /\ pc = "done" /\ is_valid = "True"
  /\ Called /\ edits = 0 /\ outcome = "True"
  /\ HasUpper(presented.address)

\* C2: a document that differs in a field value from the one signed, shown
\* with the signature and address unchanged, is not verified.
C2_TamperDetected ==
  (Called /\ SameProof /\ ~PyEq(presented.did_document, Issued.did_document))
    => outcome # "True"

C2_Witness ==
  /\ Called /\ SameProof
  /\ Len(DictGet(presented.did_document, "@context").items) = 3
  /\ outcome = "False"

\* C3 (as claimed): verify_did returns True only when the recovered address
\* is the one named in the document's id and blockchainAccountId.
C3_BindingChecked ==
  (Called /\ outcome = "True"
     /\ Len(DictGet(presented.did_document, "verificationMethod").items) = 1) =>
    LET doc == presented.did_document
        vm == DictGet(doc, "verificationMethod").items[1]
        recovered == RecoverMessage(EncodeDefunct(JsonDumps(doc)),
                                    presented.signature).address
    IN  /\ Lower(DictGet(doc, "id").s) = Lower(Did(recovered))
        /\ Lower(DictGet(vm, "blockchainAccountId").s)
             = Lower(<<"eip155:10:">> \o recovered)

\* C4 (as claimed): a document with the same field values as the signed one
\* serializes to the same message whatever its key order, and is verified.
C4_OrderIndependent ==
  (Called /\ SameProof /\ PyEq(presented.did_document, Issued.did_document)) =>
    /\ JsonDumps(presented.did_document) = JsonDumps(Issued.did_document)
    /\ outcome = "True"

\* C5 (as claimed): a malformed signature makes verify_did return False.
C5_RecoveryFailureIsFalse ==
  (Called /\ presented.signature.nbytes # SigBytes) => outcome = "False"

\* C6 (as claimed): the address segment of did and of did_document.id is
\* "0x" and AddrLen lower-case hex digits.
C6_DidLowercase ==
  HasBundle =>
    LET seg == Tail(did_info.did) IN
    /\ did_info.did[1] = "did:ethr:optimism:"
    /\ DictGet(did_info.did_document, "id").s = did_info.did
    /\ Len(seg) = AddrLen + 1
    /\ seg[1] = "0x"
    /\ \A i \in 2..Len(seg) : NibbleOf(seg[i]) \in 0..15
    /\ seg = Lower(seg)

\* C7: the built document has exactly one verification method, whose id is
\* the DID followed by "#controller" and whose controller is the document's
\* id; authentication and assertionMethod list only ids of verification
\* methods.
C7_ReferentialIntegrity ==
  HasBundle =>
    LET doc == did_info.did_document
        vms == DictGet(doc, "verificationMethod").items
        ids == {DictGet(vms[i], "id") : i \in 1..Len(vms)}
        auth == DictGet(doc, "authentication").items
        assertion == DictGet(doc, "assertionMethod").items
    IN  /\ Len(vms) = 1
        /\ DictGet(vms[1], "id") = PyStr(did_info.did \o <<"#controller">>)
        /\ DictGet(vms[1], "controller") = DictGet(doc, "id")
        /\ DictGet(doc, "id") = PyStr(did_info.did)
        /\ \A i \in 1..Len(auth) : auth[i] \in ids
        /\ \A i \in 1..Len(assertion) : assertion[i] \in ids
        /\ Len(auth) = 1 /\ Len(assertion) = 1

C7_Witness ==
  /\ pc = "created"
  /\ DictGet(did_info.did_document, "authentication").items
       = <<PyStr(did_info.did \o <<"#controller">>)>>

\* C8: did and did_document.id are "did:ethr:optimism:" followed by the
\* bundle's address text, and blockchainAccountId is "eip155:10:" followed
\* by the same text.
C8_DidOfAddress ==
  HasBundle =>
    LET doc == did_info.did_document
        vm == DictGet(doc, "verificationMethod").items[1]
    IN  /\ did_info.did = <<"did:ethr:optimism:">> \o did_info.address
        /\ DictGet(doc, "id").s = did_info.did
        /\ DictGet(vm, "blockchainAccountId").s
             = <<"eip155:10:">> \o did_info.address
        /\ did_info.address = AccountAddress(FromHex(did_info.private_key))

\* The scenario's address: every digit 1.
C8_Witness ==
  /\ pc = "created"
  /\ did_info.address = <<"0x">> \o [i \in 1..AddrLen |-> "1"]
  /\ did_info.did = <<"did:ethr:optimism:", "0x">> \o [i \in 1..AddrLen |-> "1"]

\* C9: a verify_did call leaves the bundle as it was, and a call on a bundle
\* that was verified before returns what the earlier call returned.
C9_VerifyIsStateless ==
  [][/\ calls' = calls + 1 =>
          /\ presented' = presented
          /\ outcome # "none" => outcome' = outcome
     /\ (pc = "created" /\ pc' # "created") => did_info' = did_info]_vars

C9_Witness ==
  /\ calls = 2
  /\ outcome = "True"
  /\ HasUpper(presented.address)

====
